---- MODULE Spec2Model ----
(***************************************************************************)
(* Hostel complaint tracker: the useComplaints hook (Supabase version),    *)
(* the complaints table it reads and writes, and any number of browser     *)
(* clients, each holding its own React state (`complaints`, `isLoading`).  *)
(*                                                                         *)
(* A client's async handler is a process: `pc` is its position between     *)
(* two awaited store requests, so requests of different clients interleave *)
(* exactly where the code awaits.  Every store request is atomic at the    *)
(* server and may fail (`ok = FALSE`).                                     *)
(***************************************************************************)
EXTENDS Integers, FiniteSets, Sequences, TLC

\* ------------------------------------------------------------ bounds
NumClients == 2
NumIds == 1
MaxDays == 3
MaxRollLen == 2
MaxListed == 2
MaxSessions == 2

Clients == 1..NumClients
Ids == 1..NumIds

\* ------------------------------------------------------------ constants
MS_PER_DAY == 1000 * 60 * 60 * 24
AUTO_ESCALATE_DAYS == 3
MIN_RATING == 1
MAX_RATING == 5

\* Instants the clock is observed at: the start, the last millisecond before the
\* auto-escalation age (2.999.. days), that age exactly, and every whole day
\* after it up to MaxDays.
Times ==
  {0, AUTO_ESCALATE_DAYS * MS_PER_DAY - 1}
    \cup {d * MS_PER_DAY : d \in AUTO_ESCALATE_DAYS..MaxDays}

Levels == {"Level 1", "Level 2", "Level 3", "Level 4"}
Statuses == {"Pending", "Assigned", "Escalated", "Resolved"}

LevelNum(l) ==
  CASE l = "Level 1" -> 1 [] l = "Level 2" -> 2 [] l = "Level 3" -> 3 [] l = "Level 4" -> 4

LEVEL_WORKERS ==
  [l \in Levels |->
     CASE l = "Level 1" -> [name |-> "Carpenter Krishna", phone |-> "9876543210"]
       [] l = "Level 2" -> [name |-> "Maintenance Supervisor", phone |-> "9876500000"]
       [] l = "Level 3" -> [name |-> "External Contractor", phone |-> "9876511111"]
       [] l = "Level 4" -> [name |-> "Hostel Warden", phone |-> "9876522222"]]

\* Issue categories offered by the form (two of ISSUE_TYPES are enough to tell
\* a category with its own worker from one without).
IssueTypes == {"Plumbing", "Other"}

\* getLevel1Worker: static issue-type -> worker lookup with the default Level-1
\* worker as fallback.
getLevel1Worker(issueType) ==
  IF issueType = "Plumbing"
    THEN [name |-> "Plumber", phone |-> "issue-type phone"]
    ELSE LEVEL_WORKERS["Level 1"]

\* A nullable column is the empty set (NULL) or a singleton.
NULL == {}
Some(v) == {v}
Val(s) == CHOOSE v \in s : TRUE

\* Ratings a caller may pass to submitFeedback (0 = nothing selected).
RatingInputs == {0, 1, 5, 6}
Comments == {"slow"}

VARIABLES
  store,        \* the complaints table: complaint_id -> row
  nextId,       \* ids generated so far + 1 (generateComplaintId never repeats)
  now,          \* the wall clock, in ms
  complaints,   \* per client: useState<Complaint[]>, keyed by Complaint.id
  isLoading,    \* per client: useState(true)
  pc,           \* per client: position of the running handler
  data,         \* per client: rows returned by fetchComplaints' first select
  pending,      \* per client: rows of `data` the for-loop has not reached
  needsRefresh, \* per client: fetchComplaints' local flag
  outcome,      \* per client: how the last hook call ended
  call,         \* per client: the hook call in progress, what it read and when
                \* (recorded in the sequential and race scenarios)
  scenario,     \* "concurrent": every client acts; "sequential": one client does;
                \* "attachments": one client does, and submits files;
                \* "race": every client acts and escalateComplaint calls are recorded
  escalated,    \* history: ids some escalation write was applied to
  currentRole,      \* Index: useState<UserRole | null>(null)
  rollNumber,       \* Index: useState<string>('')
  sessionKey,       \* Index: useState(0)
  selectedRole,     \* LoginScreen: useState<UserRole>('student')
  password,         \* LoginScreen: useState('')
  loginRollNumber,  \* LoginScreen: its own rollNumber, useState('')
  error,            \* LoginScreen: useState('')
  viewComplaints,   \* the `complaints` the mounted view has from its hook
  bucket            \* storage bucket 'complaint-attachments': the file names in it

hookVars == <<store, nextId, now, complaints, isLoading, pc, data, pending,
              needsRefresh, outcome, call, scenario, escalated, bucket>>

formVars == <<selectedRole, password, loginRollNumber, error>>

pageVars == <<currentRole, rollNumber, sessionKey, formVars, viewComplaints>>

vars == <<hookVars, pageVars>>

clientVars == <<complaints, isLoading, pc, data, pending, needsRefresh, outcome, call>>

\* The clients that act, and the record kept of a call in progress.
Actors == IF scenario \in {"sequential", "attachments"} THEN {1} ELSE Clients

\* Files a submission carries: none, or two images, and possibly a video.
ImageFileLists ==
  IF scenario = "attachments" THEN {<< >>, <<"a.png", "b.png">>} ELSE {<< >>}

VideoFiles == IF scenario = "attachments" THEN {NULL, Some("v.mp4")} ELSE {NULL}

Record(op, id, level) ==
  IF scenario = "sequential" \/ (scenario = "race" /\ op = "escalateComplaint")
    THEN Some([op |-> op, id |-> id, level |-> level, at |-> now])
    ELSE NULL

\* ------------------------------------------------------------ pure helpers

\* mapDbToComplaint's feedback field: present only if the rating is truthy
\* (non-NULL and non-zero); a missing comment or timestamp becomes ''.
feedbackOf(db) ==
  IF db.feedback_rating # NULL /\ Val(db.feedback_rating) # 0
    THEN Some([ rating |-> Val(db.feedback_rating),
                comment |-> IF db.feedback_comment = NULL
                              THEN "" ELSE Val(db.feedback_comment),
                submittedAt |-> IF db.feedback_submitted_at = NULL
                                  THEN 0 ELSE Val(db.feedback_submitted_at) ])
    ELSE NULL

\* The columns of a selected row that fetchComplaints and the hook's list use:
\* the auto-escalation check reads status, level and created_at, and the hook
\* reads back only .status and .level of a listed complaint.
Selected(row) ==
  [status |-> row.status, level |-> row.level, created_at |-> row.created_at]

SelectAll(tbl) == [id \in DOMAIN tbl |-> Selected(tbl[id])]

\* mapDbToComplaint: snake_case row -> Complaint (complaint_id becomes id).
mapDbToComplaint(id, db) ==
  [id |-> id, status |-> db.status, level |-> db.level]

\* data.map(mapDbToComplaint)
mapRows(rows) == [id \in DOMAIN rows |-> mapDbToComplaint(id, rows[id])]

\* Mutant of levelMap: a lookup that finds no successor falls back to Level 1.
levelMap_DefaultsToLevel1(l) ==
  CASE l = "Level 1" -> Some("Level 2")
    [] l = "Level 2" -> Some("Level 3")
    [] l = "Level 3" -> Some("Level 4")
    [] OTHER -> Some("Level 1")

\* Mutant of levelMap: the path jumps from Level 1 straight to Level 3.
levelMap_SkipsLevel(l) ==
  CASE l = "Level 1" -> Some("Level 3")
    [] l = "Level 2" -> Some("Level 3")
    [] l = "Level 3" -> Some("Level 4")
    [] OTHER -> NULL

\* The escalation path used by escalateComplaint ('Level 4' maps to null) and,
\* without the 'Level 4' entry, by checkAutoEscalation.
levelMap(l) ==
  CASE l = "Level 1" -> Some("Level 2")
    [] l = "Level 2" -> Some("Level 3")
    [] l = "Level 3" -> Some("Level 4")
    [] OTHER -> NULL

daysSinceCreated(created_at, t) == (t - created_at) \div MS_PER_DAY

\* Mutant of EscalationUpdate: an escalated complaint is marked Assigned (to
\* its new worker) instead of Escalated.
EscalationUpdate_MarksAssigned(nextLevel) ==
  [ level |-> nextLevel,
    status |-> "Assigned",
    assigned_worker_name |-> LEVEL_WORKERS[nextLevel].name,
    assigned_worker_phone |-> LEVEL_WORKERS[nextLevel].phone ]

\* Mutant of EscalationUpdate: an escalation restarts the complaint's clock.
EscalationUpdate_RestartsClock(nextLevel) ==
  [ level |-> nextLevel,
    status |-> "Escalated",
    assigned_worker_name |-> LEVEL_WORKERS[nextLevel].name,
    assigned_worker_phone |-> LEVEL_WORKERS[nextLevel].phone,
    created_at |-> now ]

\* Mutant of EscalationUpdate: the worker columns are left out of the update.
EscalationUpdate_KeepsWorker(nextLevel) ==
  [level |-> nextLevel, status |-> "Escalated"]

\* The column set written by both escalation paths.
EscalationUpdate(nextLevel) ==
  [ level |-> nextLevel,
    status |-> "Escalated",
    assigned_worker_name |-> LEVEL_WORKERS[nextLevel].name,
    assigned_worker_phone |-> LEVEL_WORKERS[nextLevel].phone ]

\* Mutant of checkAutoEscalation: an overdue complaint goes straight to the
\* top of the path instead of one level up.
checkAutoEscalation_JumpsToTop(row, t) ==
  IF row.status = "Resolved" THEN NULL
  ELSE IF row.level = "Level 4" THEN NULL
  ELSE IF daysSinceCreated(row.created_at, t) >= AUTO_ESCALATE_DAYS
            /\ levelMap(row.level) # NULL
         THEN Some(EscalationUpdate("Level 4"))
         ELSE NULL

\* Mutant of checkAutoEscalation: "more than 3 days" taken strictly.
checkAutoEscalation_StrictAge(row, t) ==
  IF row.status = "Resolved" THEN NULL
  ELSE IF row.level = "Level 4" THEN NULL
  ELSE IF daysSinceCreated(row.created_at, t) > AUTO_ESCALATE_DAYS
            /\ levelMap(row.level) # NULL
         THEN Some(EscalationUpdate(Val(levelMap(row.level))))
         ELSE NULL

\* Mutant of checkAutoEscalation: the Resolved check is missing.
checkAutoEscalation_IgnoresResolved(row, t) ==
  IF row.level = "Level 4" THEN NULL
  ELSE IF daysSinceCreated(row.created_at, t) >= AUTO_ESCALATE_DAYS
            /\ levelMap(row.level) # NULL
         THEN Some(EscalationUpdate(Val(levelMap(row.level))))
         ELSE NULL

\* checkAutoEscalation's decision for one fetched row at time t: the update it
\* issues (a singleton) or NULL when it returns false.
checkAutoEscalation(row, t) ==
  IF row.status = "Resolved" THEN NULL
  ELSE IF row.level = "Level 4" THEN NULL
  ELSE IF daysSinceCreated(row.created_at, t) >= AUTO_ESCALATE_DAYS
            /\ levelMap(row.level) # NULL
         THEN Some(EscalationUpdate(Val(levelMap(row.level))))
         ELSE NULL

\* updateComplaint's dbUpdates: only truthy fields of `updates` are copied.
dbUpdatesOf(updates) ==
  LET F == DOMAIN updates
      cols == (IF "status" \in F THEN {"status"} ELSE {})
              \cup (IF "level" \in F THEN {"level"} ELSE {})
              \cup (IF "assignedWorkerName" \in F THEN {"assigned_worker_name"} ELSE {})
              \cup (IF "assignedWorkerPhone" \in F THEN {"assigned_worker_phone"} ELSE {})
              \cup (IF "feedback" \in F
                      THEN {"feedback_rating", "feedback_comment", "feedback_submitted_at"}
                      ELSE {})
  IN [col \in cols |->
        CASE col = "status" -> updates.status
          [] col = "level" -> updates.level
          [] col = "assigned_worker_name" -> updates.assignedWorkerName
          [] col = "assigned_worker_phone" -> updates.assignedWorkerPhone
          [] col = "feedback_rating" -> Some(updates.feedback.rating)
          [] col = "feedback_comment" -> Some(updates.feedback.comment)
          [] col = "feedback_submitted_at" -> Some(updates.feedback.submittedAt)]

\* ------------------------------------------------------------ the store

\* Mutant of RatingCheck: the constraint has a lower bound only.
RatingCheck_NoUpperBound(r) == r = NULL \/ Val(r) >= MIN_RATING

\* CHECK (feedback_rating >= 1 AND feedback_rating <= 5); NULL passes.
RatingCheck(r) == r = NULL \/ (Val(r) >= MIN_RATING /\ Val(r) <= MAX_RATING)

ApplyUpdate(row, upd) ==
  [col \in DOMAIN row |-> IF col \in DOMAIN upd THEN upd[col] ELSE row[col]]

\* UPDATE complaints SET upd WHERE complaint_id = id.  An absent id matches
\* no row and is no error; a row violating the CHECK constraint is one.
UpdateViolates(tbl, id, upd) ==
  id \in DOMAIN tbl /\ ~RatingCheck(ApplyUpdate(tbl[id], upd).feedback_rating)

UpdateRows(tbl, id, upd) ==
  IF id \in DOMAIN tbl
    THEN [tbl EXCEPT ![id] = ApplyUpdate(tbl[id], upd)]
    ELSE tbl

\* Mutant of DeleteRows: no row-level policy, every matching row is deleted.
DeleteRows_NoPolicy(tbl, id) ==
  [i \in DOMAIN tbl \ {id} |-> tbl[i]]

\* DELETE ... WHERE complaint_id = id under the row-level policy
\* USING (status = 'Resolved'): other rows are invisible to the delete.
DeleteRows(tbl, id) ==
  IF id \in DOMAIN tbl /\ tbl[id].status = "Resolved"
    THEN [i \in DOMAIN tbl \ {id} |-> tbl[i]]
    ELSE tbl

\* Mutant of NewRow: the insert takes the static Level 1 worker whatever the
\* issue type.
NewRow_IgnoresIssueType(complaint, imageUrls, videoUrl, t) ==
  [ images |-> imageUrls,
    video |-> videoUrl,
    status |-> complaint.status,
    level |-> complaint.level,
    assigned_worker_name |-> LEVEL_WORKERS["Level 1"].name,
    assigned_worker_phone |-> LEVEL_WORKERS["Level 1"].phone,
    feedback_rating |-> NULL,
    feedback_comment |-> NULL,
    feedback_submitted_at |-> NULL,
    created_at |-> t ]

\* The row addComplaint inserts; the table defaults fill the rest.
NewRow(complaint, imageUrls, videoUrl, t) ==
  [ images |-> imageUrls,
    video |-> videoUrl,
    status |-> complaint.status,
    level |-> complaint.level,
    assigned_worker_name |-> getLevel1Worker(complaint.issueType).name,
    assigned_worker_phone |-> getLevel1Worker(complaint.issueType).phone,
    feedback_rating |-> NULL,
    feedback_comment |-> NULL,
    feedback_submitted_at |-> NULL,
    created_at |-> t ]

\* `${complaint.id}/${Date.now()}-${file.name}`
FileName(id, t, name) == [folder |-> id, at |-> t, name |-> name]

\* getPublicUrl(fileName).data.publicUrl
publicUrl(fileName) == [bucket |-> "complaint-attachments", path |-> fileName]

\* storage.upload without upsert: a name already in the bucket is an error.
UploadViolates(bkt, fileName) == fileName \in bkt

\* Mutant of UploadImages: the URL of a failed upload is kept all the same.
RECURSIVE UploadImages_KeepsFailed(_, _, _, _, _)
UploadImages_KeepsFailed(files, oks, id, t, bkt) ==
  IF files = << >>
    THEN [imageUrls |-> << >>, bucket |-> bkt]
    ELSE LET fileName == FileName(id, t, Head(files))
             uploaded == Head(oks) /\ ~UploadViolates(bkt, fileName)
             rest == UploadImages_KeepsFailed(Tail(files), Tail(oks), id, t,
                                              IF uploaded THEN bkt \cup {fileName} ELSE bkt)
         IN [imageUrls |-> <<publicUrl(fileName)>> \o rest.imageUrls,
             bucket |-> rest.bucket]

\* addComplaint step 1: every image is uploaded in turn; the URL of one that
\* went up is pushed to imageUrls, one that failed is passed over.  oks[i]
\* says whether the storage service takes the i-th upload.
RECURSIVE UploadImages(_, _, _, _, _)
UploadImages(files, oks, id, t, bkt) ==
  IF files = << >>
    THEN [imageUrls |-> << >>, bucket |-> bkt]
    ELSE LET fileName == FileName(id, t, Head(files))
             uploaded == Head(oks) /\ ~UploadViolates(bkt, fileName)
             rest == UploadImages(Tail(files), Tail(oks), id, t,
                                  IF uploaded THEN bkt \cup {fileName} ELSE bkt)
         IN [imageUrls |-> IF uploaded THEN <<publicUrl(fileName)>> \o rest.imageUrls
                                       ELSE rest.imageUrls,
             bucket |-> rest.bucket]

\* addComplaint step 2: the video, if there is one, the same way.
UploadVideo(videoFile, ok, id, t, bkt) ==
  IF videoFile = NULL
    THEN [videoUrl |-> NULL, bucket |-> bkt]
    ELSE LET fileName == FileName(id, t, Val(videoFile))
         IN IF ok /\ ~UploadViolates(bkt, fileName)
              THEN [videoUrl |-> Some(publicUrl(fileName)), bucket |-> bkt \cup {fileName}]
              ELSE [videoUrl |-> NULL, bucket |-> bkt]

\* Mutant of InsertViolates: the table has no UNIQUE constraint on
\* complaint_id.
InsertViolates_NoUnique(tbl, id) == FALSE

\* INSERT INTO complaints: complaint_id is UNIQUE, a second row with an id
\* already in the table is an error.
InsertViolates(tbl, id) == id \in DOMAIN tbl

InsertRow(tbl, id, row) == (id :> row) @@ tbl

\* ------------------------------------------------------------ Init

\* LoginScreen as mounted: the initial values of its useState calls.
FormCleared ==
  /\ selectedRole = "student"
  /\ password = ""
  /\ loginRollNumber = << >>
  /\ error = ""

\* Index as mounted: nobody logged in, the login screen shown.
LoginShown ==
  /\ currentRole = NULL
  /\ rollNumber = << >>
  /\ sessionKey = 0
  /\ viewComplaints = << >>
  /\ FormCleared

Mounted ==
  /\ store = << >>
  /\ nextId = 1
  /\ now = 0
  /\ complaints = [c \in Clients |-> << >>]
  /\ isLoading = [c \in Clients |-> TRUE]
  /\ pc = [c \in Clients |-> "select"]       \* useEffect: fetchComplaints()
  /\ data = [c \in Clients |-> << >>]
  /\ pending = [c \in Clients |-> {}]
  /\ needsRefresh = [c \in Clients |-> FALSE]
  /\ outcome = [c \in Clients |-> "pending"]
  /\ call = [c \in Clients |-> Record("fetchComplaints", 0, "")]
  /\ escalated = {}
  /\ bucket = {}
  /\ LoginShown

Init == scenario = "concurrent" /\ Mounted

InitSingle == scenario = "sequential" /\ Mounted

InitAttach == scenario = "attachments" /\ Mounted

InitRace == scenario = "race" /\ Mounted

\* ------------------------------------------------------------ fetchComplaints

\* Entering fetchComplaints: setIsLoading(true), then the select is awaited.
StartFetch(c, op, id, level) ==
  /\ pc' = [pc EXCEPT ![c] = "select"]
  /\ isLoading' = [isLoading EXCEPT ![c] = TRUE]
  /\ outcome' = [outcome EXCEPT ![c] = "pending"]
  /\ call' = [call EXCEPT ![c] = Record(op, id, level)]

\* Leaving fetchComplaints: setIsLoading(false); the hook call that ran it ends.
EndFetch(c) ==
  /\ isLoading' = [isLoading EXCEPT ![c] = FALSE]
  /\ pc' = [pc EXCEPT ![c] = "idle"]
  /\ data' = [data EXCEPT ![c] = << >>]
  /\ pending' = [pending EXCEPT ![c] = {}]
  /\ needsRefresh' = [needsRefresh EXCEPT ![c] = FALSE]
  /\ outcome' = [outcome EXCEPT ![c] = "resolved"]
  /\ call' = [call EXCEPT ![c] = NULL]

\* select('*').order('created_at', desc): on error log, stop loading, return.
FetchSelect(c) ==
  /\ pc[c] = "select"
  /\ \E ok \in BOOLEAN :
       IF ~ok
         THEN /\ EndFetch(c)
              /\ UNCHANGED complaints
         ELSE IF DOMAIN store = {}
           THEN /\ complaints' = [complaints EXCEPT ![c] = mapRows(SelectAll(store))]
                /\ EndFetch(c)
           ELSE /\ data' = [data EXCEPT ![c] = SelectAll(store)]
                /\ pending' = [pending EXCEPT ![c] = DOMAIN store]
                /\ needsRefresh' = [needsRefresh EXCEPT ![c] = FALSE]
                /\ pc' = [pc EXCEPT ![c] = "loop"]
                /\ UNCHANGED <<complaints, isLoading, outcome, call>>
  /\ UNCHANGED <<store, nextId, now, escalated, scenario>>

\* The row the for-loop reaches next: newest first, ties in any order.
NextInOrder(c, id) ==
  /\ id \in pending[c]
  /\ \A other \in pending[c] : data[c][other].created_at <= data[c][id].created_at

\* Mutant of FetchCheck: each iteration decides on the row as persisted now,
\* not on the row the select returned.
FetchCheck_ReadsStore(c) ==
  /\ pc[c] = "loop"
  /\ \E id \in pending[c] :
       /\ NextInOrder(c, id)
       /\ LET dec == checkAutoEscalation(IF id \in DOMAIN store THEN Selected(store[id])
                                         ELSE data[c][id], now)
              last == pending[c] = {id}
          IN IF dec = NULL
               THEN /\ UNCHANGED <<store, escalated>>
                    /\ IF last /\ ~needsRefresh[c]
                         THEN /\ complaints' = [complaints EXCEPT ![c] = mapRows(data[c])]
                              /\ EndFetch(c)
                         ELSE /\ pending' = [pending EXCEPT ![c] = @ \ {id}]
                              /\ pc' = [pc EXCEPT ![c] = IF last THEN "reselect" ELSE "loop"]
                              /\ UNCHANGED <<complaints, isLoading, data, needsRefresh, outcome, call>>
               ELSE /\ needsRefresh' = [needsRefresh EXCEPT ![c] = TRUE]
                    /\ pending' = [pending EXCEPT ![c] = @ \ {id}]
                    /\ pc' = [pc EXCEPT ![c] = IF last THEN "reselect" ELSE "loop"]
                    /\ UNCHANGED <<complaints, isLoading, data, outcome, call>>
                    /\ \E ok \in BOOLEAN :
                         IF ok
                           THEN /\ store' = UpdateRows(store, id, Val(dec))
                                /\ escalated' = escalated \cup ({id} \cap DOMAIN store)
                           ELSE UNCHANGED <<store, escalated>>
  /\ UNCHANGED <<nextId, now, scenario>>

\* One iteration: await checkAutoEscalation(complaint).  The update's error is
\* not inspected, so a failed write still returns true.  After the last row,
\* with nothing escalated, the rows already fetched are published at once;
\* otherwise the re-select is awaited.
FetchCheck(c) ==
  /\ pc[c] = "loop"
  /\ \E id \in pending[c] :
       /\ NextInOrder(c, id)
       /\ LET dec == checkAutoEscalation(data[c][id], now)
              last == pending[c] = {id}
          IN IF dec = NULL
               THEN /\ UNCHANGED <<store, escalated>>
                    /\ IF last /\ ~needsRefresh[c]
                         THEN /\ complaints' = [complaints EXCEPT ![c] = mapRows(data[c])]
                              /\ EndFetch(c)
                         ELSE /\ pending' = [pending EXCEPT ![c] = @ \ {id}]
                              /\ pc' = [pc EXCEPT ![c] = IF last THEN "reselect" ELSE "loop"]
                              /\ UNCHANGED <<complaints, isLoading, data, needsRefresh, outcome, call>>
               ELSE /\ needsRefresh' = [needsRefresh EXCEPT ![c] = TRUE]
                    /\ pending' = [pending EXCEPT ![c] = @ \ {id}]
                    /\ pc' = [pc EXCEPT ![c] = IF last THEN "reselect" ELSE "loop"]
                    /\ UNCHANGED <<complaints, isLoading, data, outcome, call>>
                    /\ \E ok \in BOOLEAN :
                         IF ok
                           THEN /\ store' = UpdateRows(store, id, Val(dec))
                                /\ escalated' = escalated \cup ({id} \cap DOMAIN store)
                           ELSE UNCHANGED <<store, escalated>>
  /\ UNCHANGED <<nextId, now, scenario>>

\* Mutant of FetchReselect: the re-queried rows go through the
\* auto-escalation pass again.
FetchReselect_ChecksAgain(c) ==
  /\ pc[c] = "reselect"
  /\ \E ok \in BOOLEAN :
       IF ok /\ DOMAIN store # {}
         THEN /\ data' = [data EXCEPT ![c] = SelectAll(store)]
              /\ pending' = [pending EXCEPT ![c] = DOMAIN store]
              /\ needsRefresh' = [needsRefresh EXCEPT ![c] = FALSE]
              /\ pc' = [pc EXCEPT ![c] = "loop"]
              /\ UNCHANGED <<complaints, isLoading, outcome, call>>
         ELSE /\ UNCHANGED complaints
              /\ EndFetch(c)
  /\ UNCHANGED <<store, nextId, now, escalated, scenario>>

\* needsRefresh: the second select; a failed one keeps the old list.
FetchReselect(c) ==
  /\ pc[c] = "reselect"
  /\ \E ok \in BOOLEAN :
       complaints' = [complaints EXCEPT ![c] = IF ok THEN mapRows(SelectAll(store)) ELSE @]
  /\ EndFetch(c)
  /\ UNCHANGED <<store, nextId, now, escalated, scenario>>

\* refetch: fetchComplaints called by a view.
Refetch(c) ==
  /\ pc[c] = "idle"
  /\ StartFetch(c, "fetchComplaints", 0, "")
  /\ UNCHANGED <<store, nextId, now, complaints, data, pending, needsRefresh, escalated, scenario>>

\* ------------------------------------------------------------ hook operations

\* The call returns (or throws) without reaching fetchComplaints.
EndCall(c, how) ==
  /\ outcome' = [outcome EXCEPT ![c] = how]
  /\ UNCHANGED <<pc, isLoading, call>>

escalateComplaint(c, id) ==
  /\ pc[c] = "idle"
  /\ IF id \notin DOMAIN complaints[c]
       THEN /\ EndCall(c, "not found")                \* logs, returns undefined
            /\ UNCHANGED <<store, escalated>>
       ELSE LET nextLevel == levelMap(complaints[c][id].level)
            IN IF nextLevel = NULL
                 THEN /\ EndCall(c, "max level")      \* logs, returns undefined
                      /\ UNCHANGED <<store, escalated>>
                 ELSE \E ok \in BOOLEAN :
                        IF ok
                          THEN /\ store' = UpdateRows(store, id, EscalationUpdate(Val(nextLevel)))
                               /\ escalated' = escalated \cup ({id} \cap DOMAIN store)
                               /\ StartFetch(c, "escalateComplaint", id, complaints[c][id].level)
                          ELSE /\ EndCall(c, "rejected")   \* throw error
                               /\ UNCHANGED <<store, escalated>>
  /\ UNCHANGED <<nextId, now, complaints, data, pending, needsRefresh, scenario>>

updateComplaint(c, op, id, updates) ==
  /\ pc[c] = "idle"
  /\ \E ok \in BOOLEAN :
       IF ok /\ ~UpdateViolates(store, id, dbUpdatesOf(updates))
         THEN /\ store' = UpdateRows(store, id, dbUpdatesOf(updates))
              /\ StartFetch(c, op, id, "")
         ELSE /\ EndCall(c, "rejected")               \* throw error
              /\ UNCHANGED store
  /\ UNCHANGED <<nextId, now, complaints, data, pending, needsRefresh, escalated, scenario>>

\* Mutant of resolveComplaint: resolving also sends the complaint back to
\* Level 1.
resolveComplaint_ResetsLevel(c, id) ==
  updateComplaint(c, "resolveComplaint", id, [status |-> "Resolved", level |-> "Level 1"])

resolveComplaint(c, id) ==
  updateComplaint(c, "resolveComplaint", id, [status |-> "Resolved"])

submitFeedback(c, id, rating, comment) ==
  updateComplaint(c, "submitFeedback", id,
    [feedback |-> [rating |-> rating, comment |-> comment, submittedAt |-> now]])

deleteComplaint(c, id) ==
  /\ pc[c] = "idle"
  /\ IF id \notin DOMAIN complaints[c] \/ complaints[c][id].status # "Resolved"
       THEN /\ EndCall(c, "rejected")                 \* throw new Error(...)
            /\ UNCHANGED store
       ELSE \E ok \in BOOLEAN :
              IF ok
                THEN /\ store' = DeleteRows(store, id)
                     /\ StartFetch(c, "deleteComplaint", id, "")
                ELSE /\ EndCall(c, "rejected")
                     /\ UNCHANGED store
  /\ UNCHANGED <<nextId, now, complaints, data, pending, needsRefresh, escalated, scenario>>

\* handleSubmit builds the Complaint (Level 1 / Pending, a generated id) and
\* calls addComplaint, which inserts it with the issue-type worker.
\* generateComplaintId (a millisecond timestamp and four random characters)
\* returns an id never issued before or, on a collision, the id of a complaint
\* submitted in the same millisecond that is still in the store.
addComplaint(c, issueType) ==
  /\ pc[c] = "idle"
  /\ \E id \in ({nextId} \cap Ids) \cup DOMAIN store :
       LET complaint == [id |-> id, status |-> "Pending", level |-> "Level 1",
                         issueType |-> issueType]
       IN \E imageFiles \in ImageFileLists, videoFile \in VideoFiles :
          \E oks \in [DOMAIN imageFiles -> BOOLEAN], videoOk, ok \in BOOLEAN :
            LET images == UploadImages(imageFiles, oks, complaint.id, now, bucket)
                video == UploadVideo(videoFile, videoOk, complaint.id, now, images.bucket)
            IN /\ videoFile = NULL => videoOk
               /\ bucket' = video.bucket
               /\ IF ok /\ ~InsertViolates(store, complaint.id)
                    THEN /\ store' = InsertRow(store, complaint.id,
                                               NewRow(complaint, images.imageUrls,
                                                      video.videoUrl, now))
                         /\ nextId' = IF complaint.id = nextId THEN nextId + 1 ELSE nextId
                         /\ StartFetch(c, "addComplaint", complaint.id, "")
                    ELSE /\ EndCall(c, "rejected")
                         /\ UNCHANGED <<store, nextId>>
  /\ UNCHANGED <<now, complaints, data, pending, needsRefresh, escalated, scenario>>

\* Time passes.  The clock is read from the first submission on: before it no
\* row exists whose age or feedback timestamp could depend on it.
Tick ==
  /\ nextId > 1
  /\ \E t \in Times : t > now /\ now' = t
  /\ UNCHANGED <<store, nextId, clientVars, scenario, escalated>>

\* ------------------------------------------------------------ login page

\* Strings that are taken apart (trim, toLowerCase) are sequences of
\* characters; strings only compared are atoms.
Chars == {"a", "A", " "}

RECURSIVE StringsUpTo(_)
StringsUpTo(n) ==
  IF n = 0 THEN {<< >>}
  ELSE LET shorter == StringsUpTo(n - 1)
       IN shorter \cup {Append(str, ch) : str \in shorter, ch \in Chars}

\* What can be typed into the roll number field.
RollNumbers == StringsUpTo(MaxRollLen)

UserRoles == {"student", "manager", "warden"}

ROLE_PASSWORDS ==
  [role \in UserRoles |->
     CASE role = "student" -> "student.nitw"
       [] role = "manager" -> "manager.nitw"
       [] role = "warden"  -> "warden.nitw"]

\* What can be typed into the password field: nothing, each role's password,
\* something else.
PasswordInputs == {"", "student.nitw", "manager.nitw", "warden.nitw", "letmein"}

\* Mutant of validatePassword: any role's password opens any role.
validatePassword_AnyRole(role, pw) == \E other \in UserRoles : ROLE_PASSWORDS[other] = pw

validatePassword(role, pw) == ROLE_PASSWORDS[role] = pw

RECURSIVE trimStart(_)
trimStart(str) ==
  IF str # << >> /\ Head(str) = " " THEN trimStart(Tail(str)) ELSE str

RECURSIVE trimEnd(_)
trimEnd(str) ==
  IF str # << >> /\ str[Len(str)] = " "
    THEN trimEnd(SubSeq(str, 1, Len(str) - 1))
    ELSE str

\* String.prototype.trim
trim(str) == trimEnd(trimStart(str))

\* studentRollNumber || '': undefined (and the empty string) give ''.
OrEmpty(opt) == IF opt = NULL THEN << >> ELSE Val(opt)

\* Leaving the login screen unmounts it: its state is gone, and the next
\* mount starts from the initial values again.
FormUnmounted ==
  /\ selectedRole' = "student"
  /\ password' = ""
  /\ loginRollNumber' = << >>
  /\ error' = ""

\* Index.handleLogin; the view of the role mounts with an empty list.
handleLogin(role, studentRollNumber) ==
  /\ currentRole' = Some(role)
  /\ rollNumber' = OrEmpty(studentRollNumber)
  /\ sessionKey' = sessionKey + 1
  /\ viewComplaints' = << >>
  /\ FormUnmounted

\* Index.handleLogout, called by the views' Logout button.
handleLogout ==
  /\ currentRole # NULL
  /\ currentRole' = NULL
  /\ rollNumber' = << >>
  /\ viewComplaints' = << >>
  /\ UNCHANGED <<sessionKey, formVars, hookVars>>

\* LoginScreen.handlePickRole
handlePickRole(role) ==
  /\ currentRole = NULL
  /\ selectedRole' = role
  /\ error' = ""
  /\ password' = ""
  /\ UNCHANGED <<loginRollNumber, currentRole, rollNumber, sessionKey, viewComplaints, hookVars>>

\* onChange of the password field
setPassword(pw) ==
  /\ currentRole = NULL
  /\ password' = pw
  /\ UNCHANGED <<selectedRole, loginRollNumber, error, currentRole, rollNumber,
                 sessionKey, viewComplaints, hookVars>>

\* onChange of the roll number field, rendered for the student role only
setRollNumber(roll) ==
  /\ currentRole = NULL
  /\ selectedRole = "student"
  /\ loginRollNumber' = roll
  /\ UNCHANGED <<selectedRole, password, error, currentRole, rollNumber,
                 sessionKey, viewComplaints, hookVars>>

\* LoginScreen.handleSubmit
handleSubmit ==
  /\ currentRole = NULL
  /\ IF selectedRole = "student" /\ trim(loginRollNumber) = << >>
       THEN /\ error' = "Please enter your roll number"
            /\ UNCHANGED <<selectedRole, password, loginRollNumber, currentRole,
                           rollNumber, sessionKey, viewComplaints>>
       ELSE IF validatePassword(selectedRole, password)
         THEN /\ sessionKey < MaxSessions
              /\ handleLogin(selectedRole,
                             IF selectedRole = "student" THEN Some(loginRollNumber) ELSE NULL)
         ELSE /\ error' = "Invalid password. Please try again."
              /\ UNCHANGED <<selectedRole, password, loginRollNumber, currentRole,
                             rollNumber, sessionKey, viewComplaints>>
  /\ UNCHANGED hookVars

\* ------------------------------------------------------------ student view

\* const wasAutoEscalated = complaint.status === 'Escalated': the condition
\* under which the card shows 'Your complaint was auto-escalated due to delay
\* in resolution.'
wasAutoEscalated(complaint) == complaint.status = "Escalated"

\* String.prototype.toLowerCase
toLowerCase(str) == [i \in DOMAIN str |-> IF str[i] = "A" THEN "a" ELSE str[i]]

\* Mutant of myComplaints: the roll numbers are compared as they are.
myComplaints_ExactCase(list, roll) ==
  SelectSeq(list, LAMBDA c : c.rollNumber = roll)

\* myComplaints = complaints.filter(c => c.rollNumber.toLowerCase() ===
\* rollNumber.toLowerCase())
myComplaints(list, roll) ==
  SelectSeq(list, LAMBDA c : toLowerCase(c.rollNumber) = toLowerCase(roll))

\* Complaints as a view holds them, here by id and roll number.
ListedIds == 1..MaxListed

ListedComplaints == [id : ListedIds, rollNumber : RollNumbers]

\* The lists a fetch can deliver: any rows, no id twice.
FetchedLists ==
  {list \in UNION {[1..n -> ListedComplaints] : n \in 0..MaxListed} :
     \A i, j \in DOMAIN list : list[i].id = list[j].id => i = j}

\* The hook of the mounted view delivers the rows of a fetch.
setComplaints(list) ==
  /\ currentRole # NULL
  /\ viewComplaints' = list
  /\ UNCHANGED <<currentRole, rollNumber, sessionKey, formVars, hookVars>>

\* ------------------------------------------------------------ specification

Fetch ==
  /\ \E c \in Actors : FetchSelect(c) \/ FetchCheck(c) \/ FetchReselect(c) \/ Refetch(c)
  /\ UNCHANGED <<pageVars, bucket>>
Escalate ==
  /\ \E c \in Actors, id \in Ids : escalateComplaint(c, id)
  /\ UNCHANGED <<pageVars, bucket>>
Resolve ==
  /\ \E c \in Actors, id \in Ids : resolveComplaint(c, id)
  /\ UNCHANGED <<pageVars, bucket>>
Feedback ==
  /\ \E c \in Actors, id \in Ids, rating \in RatingInputs, comment \in Comments :
       submitFeedback(c, id, rating, comment)
  /\ UNCHANGED <<pageVars, bucket>>
Delete ==
  /\ \E c \in Actors, id \in Ids : deleteComplaint(c, id)
  /\ UNCHANGED <<pageVars, bucket>>
Add ==
  /\ \E c \in Actors, issueType \in IssueTypes : addComplaint(c, issueType)
  /\ UNCHANGED pageVars
Clock ==
  /\ Tick
  /\ UNCHANGED <<pageVars, bucket>>

Next == Fetch \/ Escalate \/ Resolve \/ Feedback \/ Delete \/ Add \/ Clock

PickRole == \E role \in UserRoles : handlePickRole(role)
TypePassword == \E pw \in PasswordInputs : setPassword(pw)
TypeRollNumber == \E roll \in RollNumbers : setRollNumber(roll)
Submit == handleSubmit
Logout == handleLogout
Listed == \E list \in FetchedLists : setComplaints(list)

\* The page: log in, look at the list, log out.
NextIndex == PickRole \/ TypePassword \/ TypeRollNumber \/ Submit \/ Logout \/ Listed

InitIndex == scenario = "page" /\ Mounted

SpecIndex == InitIndex /\ [][NextIndex]_vars

\* Any number of clients, interleaved at their awaits.
Spec == Init /\ [][Next]_vars

\* One client, its calls one after another.
SpecSingle == InitSingle /\ [][Next]_vars

\* The same operations within one reading of the clock.
NextAttach == Fetch \/ Escalate \/ Resolve \/ Feedback \/ Delete \/ Add

\* One client, its calls one after another within one reading of the clock (so
\* that a repeated submission meets the file names of the last one), its
\* submissions carrying files.
SpecAttach == InitAttach /\ [][NextAttach]_vars

\* The client whose fetch cycles keep running.
Fetcher == CHOOSE c \in Clients : TRUE

\* Fetch cycles of client c keep being started and carried through, and each
\* of its requests that is tried again and again eventually succeeds: the
\* select, an escalation update, the re-select.
FetchProgress(c) ==
  /\ WF_vars(Refetch(c) /\ UNCHANGED <<pageVars, bucket>>)
  /\ WF_vars(FetchSelect(c) /\ UNCHANGED <<pageVars, bucket>>)
  /\ WF_vars(FetchCheck(c) /\ UNCHANGED <<pageVars, bucket>>)
  /\ WF_vars(FetchReselect(c) /\ UNCHANGED <<pageVars, bucket>>)
  /\ SF_vars(FetchSelect(c) /\ pc'[c] = "loop" /\ UNCHANGED <<pageVars, bucket>>)
  /\ SF_vars(FetchCheck(c) /\ store' # store /\ UNCHANGED <<pageVars, bucket>>)
  /\ SF_vars(/\ FetchReselect(c)
             /\ complaints'[c] = mapRows(SelectAll(store))
             /\ UNCHANGED <<pageVars, bucket>>)

\* Any number of clients, interleaved; one of them keeps fetching.
SpecFair == Init /\ [][Next]_vars /\ FetchProgress(Fetcher)

\* Any number of clients, interleaved, each escalateComplaint call on record
\* while it runs.
SpecRace == InitRace /\ [][Next]_vars

\* ------------------------------------------------------------ claims

\* The successor in the fixed ordering Level 1 < Level 2 < Level 3 < Level 4.
SuccessorLevel(l) == CHOOSE m \in Levels : LevelNum(m) = LevelNum(l) + 1

\* A row after an escalation to level l: level, status and worker replaced,
\* every other column as before.
EscalatedTo(row, l) ==
  [row EXCEPT !.level = l,
              !.status = "Escalated",
              !.assigned_worker_name = LEVEL_WORKERS[l].name,
              !.assigned_worker_phone = LEVEL_WORKERS[l].phone]

\* C1: no write lowers a complaint's persisted level: in every step, every
\* complaint that stays in the store has a level at least as high as before.
C1_LevelNeverRegresses ==
  [][\A id \in DOMAIN store \cap DOMAIN store' :
       LevelNum(store'[id].level) >= LevelNum(store[id].level)]_vars

\* C2: Resolved is terminal: a complaint whose persisted status is Resolved
\* keeps its status and its level in every later step.
C2_ResolvedIsTerminal ==
  [][\A id \in DOMAIN store \cap DOMAIN store' :
       store[id].status = "Resolved" =>
         /\ store'[id].status = "Resolved"
         /\ store'[id].level = store[id].level]_vars

\* C3: one client, one call after another: when an escalateComplaint call
\* that read level L returns (its refresh included), the complaint's persisted
\* level is the immediate successor of L, so the levels seen call after call
\* rise one at a time with none skipped.
C3_EscalateCallsStepOneLevel ==
  [][\A c \in Clients :
       (/\ call[c] # NULL
        /\ call'[c] = NULL
        /\ Val(call[c]).op = "escalateComplaint"
        /\ Val(call[c]).id \in DOMAIN store')
       => store'[Val(call[c]).id].level = SuccessorLevel(Val(call[c]).level)]_vars

\* C4: an escalateComplaint call that finds the complaint below Level 4 in
\* the client's list and whose update succeeds changes that row to the
\* successor level, status Escalated and the successor level's worker, and
\* changes nothing else in the store.
C4_EscalateWritesSuccessor ==
  [][\A c \in Clients, id \in Ids :
       (/\ escalateComplaint(c, id)
        /\ id \in DOMAIN complaints[c]
        /\ complaints[c][id].level # "Level 4"
        /\ pc'[c] = "select")
       => store' = IF id \in DOMAIN store
                     THEN [store EXCEPT ![id] =
                             EscalatedTo(@, SuccessorLevel(complaints[c][id].level))]
                     ELSE store]_vars

C4_Witness ==
  \E id \in DOMAIN store :
    /\ now < AUTO_ESCALATE_DAYS * MS_PER_DAY
    /\ id \in escalated
    /\ store[id].level = "Level 3"
    /\ store[id].status = "Escalated"
    /\ store[id].assigned_worker_name = "External Contractor"
    /\ store[id].assigned_worker_phone = "9876511111"

\* C5: escalateComplaint for a complaint persisted at Level 4 is a no-op:
\* whichever client calls it, the store (level, status, worker and feedback
\* of the row) is afterwards as it was.
C5_EscalateAtLevel4IsNoOp ==
  [][\A c \in Clients, id \in Ids :
       (/\ escalateComplaint(c, id)
        /\ id \in DOMAIN store
        /\ store[id].level = "Level 4")
       => store' = store]_vars

C7_WorkerMatchesLevel ==
  \A id \in DOMAIN store \cap escalated :
    /\ store[id].assigned_worker_name = LEVEL_WORKERS[store[id].level].name
    /\ store[id].assigned_worker_phone = LEVEL_WORKERS[store[id].level].phone

C7_Witness ==
  \E id \in DOMAIN store \cap escalated :
    /\ store[id].level = "Level 3"
    /\ store[id].status = "Resolved"
    /\ store[id].feedback_rating # NULL
    /\ store[id].assigned_worker_name = "External Contractor"

\* C8: a resolveComplaint call whose update succeeds sets the row's status to
\* Resolved and leaves every other column of it, and every other row, as
\* they were, whatever the row's level and status.
C8_ResolveTouchesOnlyStatus ==
  [][\A c \in Clients, id \in Ids :
       (resolveComplaint(c, id) /\ pc'[c] = "select" /\ id \in DOMAIN store)
       => store' = [store EXCEPT ![id] = [@ EXCEPT !.status = "Resolved"]]]_vars

C8_Witness ==
  \E id \in DOMAIN store :
    /\ store[id].status = "Resolved"
    /\ store[id].level = "Level 4"
    /\ store[id].assigned_worker_name = "Hostel Warden"
    /\ store[id].feedback_rating = NULL

\* C9: resolveComplaint is idempotent: a call made when the row is already
\* Resolved, and the refresh every resolveComplaint call runs, leave that row
\* exactly as it was.
C9_ResolveIdempotent ==
  [][\A c \in Clients :
       /\ (/\ call[c] = NULL
           /\ call'[c] # NULL
           /\ Val(call'[c]).op = "resolveComplaint"
           /\ Val(call'[c]).id \in DOMAIN store
           /\ store[Val(call'[c]).id].status = "Resolved")
          => store'[Val(call'[c]).id] = store[Val(call'[c]).id]
       /\ (/\ call[c] # NULL
           /\ Val(call[c]).op = "resolveComplaint"
           /\ Val(call[c]).id \in DOMAIN store)
          => /\ Val(call[c]).id \in DOMAIN store'
             /\ store'[Val(call[c]).id] = store[Val(call[c]).id]]_vars

\* A second resolveComplaint call is running: the client's list already
\* showed the complaint Resolved when the call was made.
C9_Witness ==
  \E c \in Clients :
    /\ call[c] # NULL
    /\ Val(call[c]).op = "resolveComplaint"
    /\ Val(call[c]).id \in DOMAIN complaints[c] \cap DOMAIN store
    /\ complaints[c][Val(call[c]).id].status = "Resolved"
    /\ store[Val(call[c]).id].status = "Resolved"
    /\ pc[c] \in {"reselect", "loop"}

\* C10: a complaint that carries feedback has status Resolved.
C10_FeedbackOnlyWhenResolved ==
  \A id \in DOMAIN store :
    feedbackOf(store[id]) # NULL => store[id].status = "Resolved"

\* The three feedback columns of a row.
FeedbackColumns(row) ==
  <<row.feedback_rating, row.feedback_comment, row.feedback_submitted_at>>

\* C11: feedback is attached at most once: in every step, a complaint that
\* has stored feedback and stays in the store keeps its rating, comment and
\* submission timestamp.
C11_FeedbackAttachedOnce ==
  [][\A id \in DOMAIN store \cap DOMAIN store' :
       store[id].feedback_rating # NULL
         => FeedbackColumns(store'[id]) = FeedbackColumns(store[id])]_vars

\* C12: a row leaves the store only while its persisted status is Resolved,
\* and a deleteComplaint call whose list lacks the complaint or shows it
\* not Resolved throws and leaves the store as it is.
C12_DeleteOnlyResolved ==
  [][/\ \A id \in DOMAIN store \ DOMAIN store' : store[id].status = "Resolved"
     /\ \A c \in Clients, id \in Ids :
          (/\ deleteComplaint(c, id)
           /\ \/ id \notin DOMAIN complaints[c]
              \/ complaints[c][id].status # "Resolved")
          => /\ store' = store
             /\ outcome'[c] = "rejected"
             /\ pc'[c] = "idle"]_vars

\* A complaint that was created is no longer in the store, while another
\* client's list still shows it.
C12_Witness ==
  \E c \in Clients : \E id \in DOMAIN complaints[c] :
    /\ id < nextId
    /\ id \notin DOMAIN store

\* C13: two clients that both read level L (below Level 4) for the same
\* complaint and both escalate it at the same clock reading: once both
\* updates are applied, and for as long as both calls run at that reading,
\* the row is at exactly the successor of L, Escalated, with that level's
\* worker; never two levels above L, never below.
C13_RacingEscalationsAbsorbed ==
  \A c \in Clients, d \in Clients :
    (/\ c # d
     /\ call[c] # NULL
     /\ call[d] # NULL
     /\ Val(call[c]).op = "escalateComplaint"
     /\ Val(call[d]).op = "escalateComplaint"
     /\ Val(call[c]).id = Val(call[d]).id
     /\ Val(call[c]).level = Val(call[d]).level
     /\ Val(call[c]).at = now
     /\ Val(call[d]).at = now
     /\ Val(call[c]).id \in DOMAIN store)
    => LET row == store[Val(call[c]).id]
       IN row = EscalatedTo(row, SuccessorLevel(Val(call[c]).level))

\* C14: auto-escalation happens only inside a fetch cycle.  (a) The passing
\* of time alone changes no row.  (b) A level changes only in an
\* escalateComplaint call or in a fetch cycle's check of that row.  (c) Each
\* iteration of a cycle takes exactly one fetched row off the rows still to
\* check, the cycle leaves its loop exactly when none is left, and the
\* iteration changes at most that row, by at most one level step from the
\* level fetched (Escalated, with the worker of that level).
C14_AutoEscalationOnlyInFetch ==
  [][/\ now' # now => store' = store
     /\ \A id \in DOMAIN store \cap DOMAIN store' :
          store'[id].level # store[id].level
            => \/ \E c \in Clients : escalateComplaint(c, id)
               \/ \E c \in Clients : pc[c] = "loop" /\ id \in pending[c] \ pending'[c]
     /\ \A c \in Clients :
          (pc[c] = "loop" /\ pending'[c] # pending[c])
          => \E id \in pending[c] :
               /\ pending[c] \ pending'[c] = {id}
               /\ pending'[c] \subseteq pending[c]
               /\ (pc'[c] = "loop") <=> (pending[c] # {id})
               /\ DOMAIN store' = DOMAIN store
               /\ \A j \in DOMAIN store : j # id => store'[j] = store[j]
               /\ id \in DOMAIN store =>
                    \/ store'[id] = store[id]
                    \/ /\ data[c][id].level # "Level 4"
                       /\ store'[id] = EscalatedTo(store[id], SuccessorLevel(data[c][id].level))]_vars

\* A fetch cycle has checked its one overdue row, fetched at Level 2, and
\* left it one step up, at Level 3.
C14_Witness ==
  \E c \in Clients : \E id \in DOMAIN data[c] \cap DOMAIN store :
    /\ pc[c] = "reselect"
    /\ pending[c] = {}
    /\ needsRefresh[c]
    /\ data[c][id].level = "Level 2"
    /\ now - data[c][id].created_at >= AUTO_ESCALATE_DAYS * MS_PER_DAY
    /\ store[id].level = "Level 3"
    /\ store[id].status = "Escalated"

\* C15: the auto-escalation check is idempotent on an unchanged input.  When
\* a client's fetch cycle checks a fetched row that another running cycle,
\* holding the same fetched row, has already checked and escalated, the second
\* check decides the same (it counts an escalation) and its update writes the
\* same level, status and worker again, so the persisted row stays as the
\* first check left it; and the row given to the check is not changed by it:
\* the cycle goes on with, or publishes, the rows as they were fetched.
C15_AutoEscalationIdempotent ==
  [][\A d \in Clients :
       (pc[d] = "loop" /\ pending'[d] # pending[d]) =>
         \A id \in pending[d] \ pending'[d] :
           /\ pc'[d] # "idle" => data'[d] = data[d]
           /\ pc'[d] = "idle" => complaints'[d] = mapRows(data[d])
           /\ \A c \in Clients \ {d} :
                (/\ pc[c] \in {"loop", "reselect"}
                 /\ id \in DOMAIN data[c] \ pending[c]
                 /\ id \in DOMAIN store
                 /\ data[c][id] = data[d][id]
                 /\ data[c][id].level # "Level 4"
                 /\ needsRefresh[c]
                 /\ store[id] = EscalatedTo(store[id], SuccessorLevel(data[c][id].level)))
                => /\ needsRefresh'[d]
                   /\ store' = store]_vars

\* Two running fetch cycles hold the same fetched row (Level 1, Pending,
\* overdue), both have checked it and counted an escalation, and the row is
\* one level up.
C15_Witness ==
  \E c \in Clients, d \in Clients : \E id \in DOMAIN store :
    /\ c # d
    /\ pc[c] = "reselect"
    /\ pc[d] = "reselect"
    /\ needsRefresh[c]
    /\ needsRefresh[d]
    /\ id \in DOMAIN data[c] \cap DOMAIN data[d]
    /\ data[c][id] = data[d][id]
    /\ data[c][id].level = "Level 1"
    /\ data[c][id].status = "Pending"
    /\ store[id] = EscalatedTo(store[id], "Level 2")

\* C16: after creation the only status values written are Escalated and
\* Resolved: in every step a row whose status changes becomes Escalated or
\* Resolved, so a row that is Escalated or Resolved is never again Pending or
\* Assigned.
C16_StatusNeverReturnsToOpen ==
  [][\A id \in DOMAIN store \cap DOMAIN store' :
       /\ store'[id].status # store[id].status
            => store'[id].status \in {"Escalated", "Resolved"}
       /\ store[id].status \in {"Escalated", "Resolved"}
            => store'[id].status \in {"Escalated", "Resolved"}]_vars

\* A complaint that went Pending -> Escalated -> Resolved.
C16_Witness ==
  \E id \in DOMAIN store \cap escalated :
    /\ store[id].status = "Resolved"
    /\ store[id].level = "Level 2"
    /\ store[id].feedback_rating = NULL

\* C17: a complaint submitted through the form enters the store at Level 1,
\* Pending, with the worker of its issue type, without feedback and created
\* now, no other row changing; and a fetch cycle that checks a row at the
\* clock reading it was created at (the fetch that follows creation) issues no
\* auto-escalation for it.
C17_CreatedAtLevel1Pending ==
  [][/\ \A c \in Clients, issueType \in IssueTypes :
          (addComplaint(c, issueType) /\ pc'[c] = "select")
          => /\ nextId \notin DOMAIN store
             /\ DOMAIN store' = DOMAIN store \cup {nextId}
             /\ \A j \in DOMAIN store : store'[j] = store[j]
             /\ store'[nextId].level = "Level 1"
             /\ store'[nextId].status = "Pending"
             /\ store'[nextId].assigned_worker_name = getLevel1Worker(issueType).name
             /\ store'[nextId].assigned_worker_phone = getLevel1Worker(issueType).phone
             /\ store'[nextId].feedback_rating = NULL
             /\ store'[nextId].created_at = now
     /\ \A c \in Clients :
          (pc[c] = "loop" /\ pending'[c] # pending[c]) =>
            \A id \in pending[c] \ pending'[c] :
              data[c][id].created_at = now
                => /\ store' = store
                   /\ pc'[c] # "idle" => needsRefresh'[c] = needsRefresh[c]]_vars

\* A plumbing complaint has been submitted and the fetch that followed has
\* published it: Level 1, Pending, with the plumbing worker.
C17_Witness ==
  \E c \in Clients : \E id \in DOMAIN complaints[c] \cap DOMAIN store :
    /\ pc[c] = "idle"
    /\ complaints[c][id].level = "Level 1"
    /\ complaints[c][id].status = "Pending"
    /\ store[id].level = "Level 1"
    /\ store[id].status = "Pending"
    /\ store[id].assigned_worker_name = getLevel1Worker("Plumbing").name
    /\ store[id].created_at = now

\* C18: a complaint's identifier and created_at never change after creation
\* and identifiers are unique: in every step a row that stays in the store
\* stays under its complaint_id with its created_at, rows appear only under
\* an id no row has, and an addComplaint call leaves every existing row,
\* also one with the generated id, as it was.
C18_IdAndCreatedAtImmutable ==
  [][/\ \A id \in DOMAIN store \cap DOMAIN store' :
          store'[id].created_at = store[id].created_at
     /\ \A id \in DOMAIN store' \ DOMAIN store :
          /\ id = nextId
          /\ nextId' = nextId + 1
          /\ store'[id].created_at = now
     /\ \A c \in Clients, issueType \in IssueTypes :
          addComplaint(c, issueType)
            => \A id \in DOMAIN store : id \in DOMAIN store' /\ store'[id] = store[id]]_vars

\* A complaint created at time 0 has since been escalated, resolved and given
\* feedback, three days on.
C18_Witness ==
  \E id \in DOMAIN store \cap escalated :
    /\ store[id].created_at = 0
    /\ now = AUTO_ESCALATE_DAYS * MS_PER_DAY
    /\ store[id].status = "Resolved"
    /\ store[id].feedback_submitted_at = Some(now)

\* C19: a store-layer failure is propagated to the caller, never reported as
\* success.  Seen from the outcome: (a) a fetchComplaints run that ends at its
\* first select ends with an error unless the select succeeded, in which case
\* the client's list is what the select returned; (b) the auto-escalation
\* check counts an escalation only when its update was applied, so that the
\* row then carries the successor level, Escalated and its worker.
C19_StoreFailurePropagated ==
  [][\A c \in Clients :
       /\ (pc[c] = "select" /\ pc'[c] = "idle")
            => \/ outcome'[c] = "rejected"
               \/ complaints'[c] = mapRows(SelectAll(store))
       /\ (pc[c] = "loop" /\ pending'[c] # pending[c])
            => \A id \in (pending[c] \ pending'[c]) \cap DOMAIN store :
                 (needsRefresh'[c] /\ ~needsRefresh[c])
                   => /\ data[c][id].level # "Level 4"
                      /\ store'[id] = EscalatedTo(store[id], SuccessorLevel(data[c][id].level))]_vars

\* C20: an operation the complaint's state forbids is rejected with an error
\* and writes nothing: escalateComplaint for a complaint the caller's list
\* shows Resolved (below Level 4), submitFeedback for a complaint the
\* caller's list shows not Resolved, escalateComplaint and deleteComplaint
\* for an id the caller's list lacks.
C20_ForbiddenOperationRejected ==
  [][\A c \in Clients, id \in Ids :
       /\ (/\ escalateComplaint(c, id)
           /\ \/ id \notin DOMAIN complaints[c]
              \/ /\ complaints[c][id].status = "Resolved"
                 /\ complaints[c][id].level # "Level 4")
          => (store' = store /\ outcome'[c] = "rejected")
       /\ (deleteComplaint(c, id) /\ id \notin DOMAIN complaints[c])
          => (store' = store /\ outcome'[c] = "rejected")
       /\ \A rating \in RatingInputs, comment \in Comments :
            (/\ submitFeedback(c, id, rating, comment)
             /\ id \in DOMAIN complaints[c]
             /\ complaints[c][id].status # "Resolved")
            => (store' = store /\ outcome'[c] = "rejected")]_vars

\* C21: every stored feedback rating is an integer from 1 to 5, whatever
\* ratings callers pass to submitFeedback (0 and 6 included).
C21_StoredRatingInRange ==
  \A id \in DOMAIN store :
    store[id].feedback_rating # NULL
      => /\ Val(store[id].feedback_rating) \in Int
         /\ Val(store[id].feedback_rating) >= 1
         /\ Val(store[id].feedback_rating) <= 5

\* A complaint holds the highest rating, and a submitFeedback call has been
\* refused since (its caller's call ended with an error).
C21_Witness ==
  \E c \in Clients : \E id \in DOMAIN store :
    /\ store[id].feedback_rating = Some(MAX_RATING)
    /\ outcome[c] = "rejected"

\* Level values with no entry in the escalation path besides Level 4.
OtherLevels == {"Level 5", ""}

C23_OverdueClimbsEveryCycle ==
  [][\A c \in Clients :
       (pc[c] = "loop" /\ pending'[c] # pending[c]) =>
         \A id \in (pending[c] \ pending'[c]) \cap DOMAIN store :
           /\ data[c][id] = Selected(store[id])
           /\ (/\ store[id].status # "Resolved"
               /\ store[id].level # "Level 4"
               /\ now - store[id].created_at >= AUTO_ESCALATE_DAYS * MS_PER_DAY)
              => \/ store' = store
                 \/ /\ LevelNum(store'[id].level) = LevelNum(store[id].level) + 1
                    /\ store'[id].created_at = store[id].created_at
                    /\ store'[id].level # "Level 4"
                         => checkAutoEscalation(Selected(store'[id]), now) # NULL
                    /\ store'[id].level = "Level 4"
                         => checkAutoEscalation(Selected(store'[id]), now) = NULL
           /\ store[id].level = "Level 4"
              => /\ store' = store
                 /\ pc'[c] # "idle" => needsRefresh'[c] = needsRefresh[c]]_vars

\* A refetch by the one client found the overdue complaint at Level 3,
\* Escalated, and its check has taken it to Level 4: the third step up.
C23_Witness ==
  \E c \in Clients : \E id \in DOMAIN data[c] \cap DOMAIN store :
    /\ call[c] # NULL
    /\ Val(call[c]).op = "fetchComplaints"
    /\ pc[c] = "reselect"
    /\ data[c][id].level = "Level 3"
    /\ data[c][id].status = "Escalated"
    /\ now - store[id].created_at >= AUTO_ESCALATE_DAYS * MS_PER_DAY
    /\ store[id].level = "Level 4"

\* A complaint that is unresolved, below Level 4 and at least 3 days old.
Overdue(id) ==
  /\ id \in DOMAIN store
  /\ store[id].status # "Resolved"
  /\ store[id].level # "Level 4"
  /\ now - store[id].created_at >= AUTO_ESCALATE_DAYS * MS_PER_DAY

\* C24: while some client keeps fetching and its store requests eventually
\* succeed, every complaint that is unresolved and at least 3 days old is
\* eventually at Level 4, or Resolved, or deleted.
C24_OverdueEventuallyAtTop ==
  \A id \in Ids :
    Overdue(id) ~> \/ id \notin DOMAIN store
                   \/ store[id].status = "Resolved"
                   \/ store[id].level = "Level 4"

\* What is left of client c's fetchComplaints invocation: the select, one
\* iteration per row not yet checked, the possible re-select.
StepsLeft(c) ==
  CASE pc[c] = "select"   -> Cardinality(Ids) + 3
    [] pc[c] = "loop"     -> Cardinality(pending[c]) + 1
    [] pc[c] = "reselect" -> 1
    [] OTHER              -> 0

\* C25: every step of a fetchComplaints invocation brings it nearer its end
\* (so it terminates once its requests are answered), and it ends with
\* isLoading false on every path: select error, no escalation, escalation and
\* re-select.  The rows are passed over once; the re-select, at most one,
\* writes nothing, publishes what it read and is followed by no further check.
C25_FetchTerminatesNotLoading ==
  [][\A c \in Clients :
       (pc[c] # "idle" /\ <<pc[c], pending[c]>>' # <<pc[c], pending[c]>>) =>
         /\ StepsLeft(c)' < StepsLeft(c)
         /\ pc'[c] # "select"
         /\ pc'[c] = "idle" => /\ isLoading'[c] = FALSE
                                /\ pending'[c] = {}
         /\ pc[c] = "loop" => /\ pending'[c] \subseteq pending[c]
                               /\ (pending'[c] # pending[c] \/ pc'[c] = "idle")
         /\ pc[c] = "reselect" => /\ pc'[c] = "idle"
                                   /\ store' = store
                                   /\ complaints'[c] \in {complaints[c], mapRows(SelectAll(store))}
         /\ pc'[c] = "reselect" => pc[c] = "loop" /\ needsRefresh'[c]]_vars

\* A pass has escalated the overdue complaint from Level 1 to Level 2 and
\* stands before its re-select: the row is still overdue, and what follows is
\* the re-select and the end, not another check.
C25_Witness ==
  \E c \in Clients : \E id \in DOMAIN data[c] \cap DOMAIN store :
    /\ pc[c] = "reselect"
    /\ isLoading[c]
    /\ needsRefresh[c]
    /\ pending[c] = {}
    /\ data[c][id].level = "Level 1"
    /\ Overdue(id)
    /\ store[id].level = "Level 2"

\* C26: the student view shows the auto-escalation notice on a complaint only
\* if its level was reached by the time-based auto-escalation.  That takes a
\* complaint at least 3 days old, so while no complaint can be that old the
\* notice is shown on none.
C26_NoticeOnlyAfterAutoEscalation ==
  \A c \in Clients, id \in Ids :
    (id \in DOMAIN complaints[c] /\ wasAutoEscalated(complaints[c][id]))
      => now >= AUTO_ESCALATE_DAYS * MS_PER_DAY

\* A roll number with something other than blanks in it.
NotBlank(str) == \E i \in DOMAIN str : str[i] # " "

\* The submission on the login screen is good: the password typed is the
\* selected role's, and a student has typed a roll number that is not blank.
GoodSubmission ==
  /\ password = ROLE_PASSWORDS[selectedRole]
  /\ selectedRole = "student" => NotBlank(loginRollNumber)

\* C27: a role's view comes up only by a login submission whose password is
\* that role's password and, for a student, whose roll number is not blank;
\* a failed submission stays on the login screen with no role; logout brings
\* back the login screen with the role cleared and the roll number empty.
C27_ViewOnlyAfterValidLogin ==
  [][/\ (currentRole' # currentRole /\ currentRole' # NULL) =>
          /\ currentRole = NULL
          /\ handleSubmit
          /\ GoodSubmission
          /\ currentRole' = Some(selectedRole)
          /\ rollNumber' = IF selectedRole = "student" THEN loginRollNumber ELSE << >>
     /\ (handleSubmit /\ ~GoodSubmission) =>
          /\ currentRole' = NULL
          /\ rollNumber' = << >>
          /\ error' # ""
     /\ handleLogout =>
          /\ currentRole' = NULL
          /\ rollNumber' = << >>
     /\ currentRole' = NULL => FormCleared' \/ currentRole = NULL]_vars

\* A student is logged in for the second time, after a logout, under a roll
\* number that is not blank.
C27_Witness ==
  /\ currentRole = Some("student")
  /\ NotBlank(rollNumber)
  /\ sessionKey = 2

\* Two roll numbers are the same but for the case of their letters.
SameIgnoringCase(r1, r2) ==
  /\ Len(r1) = Len(r2)
  /\ \A i \in DOMAIN r1 : r1[i] = r2[i] \/ {r1[i], r2[i]} = {"a", "A"}

\* List `more` is list `less` with one complaint of another roll number put
\* in somewhere.
OneOtherComplaintMore(less, more, roll) ==
  \E i \in DOMAIN more :
    /\ ~SameIgnoringCase(more[i].rollNumber, roll)
    /\ less = SubSeq(more, 1, i - 1) \o SubSeq(more, i + 1, Len(more))

\* C28: the student view lists exactly the fetched complaints whose roll
\* number is the logged-in one but for case, in the order fetched; and a list
\* that differs from the fetched one only by a complaint of another roll
\* number gives the same list shown.
C28_StudentSeesOwnComplaintsOnly ==
  currentRole = Some("student") =>
    LET shown == myComplaints(viewComplaints, rollNumber)
    IN /\ shown = SelectSeq(viewComplaints,
                             LAMBDA c : SameIgnoringCase(c.rollNumber, rollNumber))
       /\ \A other \in FetchedLists :
            (\/ OneOtherComplaintMore(viewComplaints, other, rollNumber)
             \/ OneOtherComplaintMore(other, viewComplaints, rollNumber))
              => myComplaints(other, rollNumber) = shown

\* A student logged in with a capital in the roll number is shown one
\* complaint, filed under the same roll number in small letters, and not the
\* other fetched complaint, which is another student's.
C28_Witness ==
  /\ currentRole = Some("student")
  /\ \E i \in DOMAIN rollNumber : rollNumber[i] = "A"
  /\ Len(viewComplaints) = 2
  /\ Len(myComplaints(viewComplaints, rollNumber)) = 1
  /\ \E i \in DOMAIN viewComplaints :
       /\ viewComplaints[i].rollNumber # rollNumber
       /\ SameIgnoringCase(viewComplaints[i].rollNumber, rollNumber)

\* The URLs in a list.
UrlsOf(urls) == {urls[i] : i \in DOMAIN urls}

\* C29: addComplaint tolerates failed uploads.  Whatever uploads fail, the
\* insert is made with the URLs of exactly the files that went up in this
\* call, images in the order given, the video or null; and when the insert
\* fails the call throws, no row is added and the caller's list stays as it
\* was.
C29_UploadFailuresTolerated ==
  [][\A c \in Clients, issueType \in IssueTypes :
       addComplaint(c, issueType) =>
         LET wentUp == bucket' \ bucket
         IN /\ bucket \subseteq bucket'
            /\ store' # store =>
                 \E id \in DOMAIN store' \ DOMAIN store :
                   LET row == store'[id]
                   IN /\ DOMAIN store' = DOMAIN store \cup {id}
                      /\ UrlsOf(row.images) = {publicUrl(f) : f \in {g \in wentUp : g.name # "v.mp4"}}
                      /\ Len(row.images) = Cardinality(UrlsOf(row.images))
                      /\ Len(row.images) = 2 => row.images[1].path.name = "a.png"
                      /\ row.video = {publicUrl(f) : f \in {g \in wentUp : g.name = "v.mp4"}}
                      /\ \A f \in wentUp : f.folder = id /\ f.at = now
                      /\ pc'[c] = "select"
            /\ store' = store =>
                 /\ outcome'[c] = "rejected"
                 /\ complaints' = complaints
                 /\ pc'[c] = "idle"
                 /\ isLoading' = isLoading]_vars

\* A complaint submitted with two images is in the store and in the client's
\* list with the second image only: the upload of the first failed.
C29_Witness ==
  \E c \in Clients : \E id \in DOMAIN store \cap DOMAIN complaints[c] :
    /\ pc[c] = "idle"
    /\ Len(store[id].images) = 1
    /\ store[id].images[1].path.name = "b.png"
    /\ FileName(id, now, "a.png") \notin bucket
    /\ store[id].video = NULL

====
